---- MODULE Spec2Model ----
(***************************************************************************)
(* zap-logger-filter: the sensitive-field filter (src/sensitive.go).       *)
(*                                                                         *)
(* A field name is a sequence of characters, so that strings.ToLower is a  *)
(* real conversion.  A Go dynamic value (interface{}) is a record tagged   *)
(* by its dynamic type:                                                    *)
(*   "str"    a scalar                                                     *)
(*   "nil"    the nil interface                                            *)
(*   "map"    map[string]interface{}   (nil or not)                        *)
(*   "slice"  []interface{}            (nil or not)                        *)
(*   "tmap"   any other object-shaped type (map[string]string, a struct)   *)
(*   "tslice" any other array-shaped type ([]map[string]interface{})       *)
(* JSON text is a record tagged "null", "str", "obj" or "arr".             *)
(***************************************************************************)
EXTENDS Integers, Sequences, FiniteSets, TLC

VARIABLES
    Mask,        \* the package variable Mask
    writing,     \* a store to Mask in progress: the value being stored, or NoWrite
    Filter,      \* the encoder's Filter: [nil, sensitiveFields] (nil: no filter)
    pc,          \* position of the encode call: "idle" or "encoding"
    fields,      \* the fields argument of the EncodeEntry call in flight
    delegated,   \* the field sequence handed to the wrapped encoder
    innerCalls,  \* calls of the wrapped encoder's EncodeEntry made by this call
    seen,        \* what the wrapped encoder has serialized so far, per field
    produced,    \* <<buffer>>: what the last call returned, until the core frees it
    data,        \* pure-function harness: the input of MaskSensitiveData / maskSliceData
    masked,      \* pure-function harness: the result of the first application
    remasked,    \* pure-function harness: the result of applying it to its own output
    cfg,         \* the list given to NewSensitiveDataFilter
    probe,       \* lookup harness: <<name>> once IsSensitiveField was asked about name
    answer       \* lookup harness: what IsSensitiveField returned

vars == <<Mask, writing, Filter, pc, fields, delegated, innerCalls, seen, produced,
          data, masked, remasked, cfg, probe, answer>>

encVars == <<pc, fields, delegated, innerCalls, seen, produced>>
pureVars == <<data, masked, remasked>>
lookupVars == <<cfg, probe, answer>>

------------------------------------------------------------------------------
(* Bounds *)

MaxNameLen == 2
MaxCfg == 1
MaxDepth == 2
MaxFields == 2

------------------------------------------------------------------------------
(* Strings *)

Chars == {"p", "P", "n"}

\* strings.ToLower, one character
ToLowerChar(c) ==
    CASE c = "P" -> "p"
      [] c = "N" -> "n"
      [] OTHER -> c

\* strings.ToLower
ToLower(s) == [i \in 1..Len(s) |-> ToLowerChar(s[i])]

SeqsUpTo(S, n) == UNION {[1..m -> S] : m \in 0..n}

Names == SeqsUpTo(Chars, MaxNameLen)

DefaultMask == "***"
Redacted == "[REDACTED]"
\* what a read of Mask that overlaps a store may yield besides the old and the
\* new value: a string header mixing the two (pointer of one, length of the other)
Torn == "<torn>"
MaskTokens == {DefaultMask, Redacted}

NoWrite == "<none>"

MaskReadsInitial == {DefaultMask}

\* the values a read of the package variable Mask can yield
MaskReads == IF writing = NoWrite THEN {Mask} ELSE {Mask, writing, Torn}

------------------------------------------------------------------------------
(* The filter *)

\* NewSensitiveDataFilter: the sensitiveFields map, all of whose values are true
NewSensitiveDataFilter(flds) == {ToLower(flds[i]) : i \in DOMAIN flds}

IsSensitiveFieldExact(f, fieldName) ==
    IF fieldName = <<>> THEN FALSE ELSE fieldName \in f

\* IsSensitiveField on a filter whose sensitiveFields is f
IsSensitiveField(f, fieldName) ==
    IF fieldName = <<>> THEN FALSE ELSE ToLower(fieldName) \in f

------------------------------------------------------------------------------
(* Values *)

Str(s) == [k |-> "str", s |-> s]
NilIface == [k |-> "nil"]
Unset == [k |-> "unset"]
Map(m) == [k |-> "map", nil |-> FALSE, m |-> m]
NilMap == [k |-> "map", nil |-> TRUE, m |-> <<>>]
Slice(a) == [k |-> "slice", nil |-> FALSE, a |-> a]
NilSlice == [k |-> "slice", nil |-> TRUE, a |-> <<>>]
TMap(m) == [k |-> "tmap", nil |-> FALSE, m |-> m]
NilTMap == [k |-> "tmap", nil |-> TRUE, m |-> <<>>]
TSlice(a) == [k |-> "tslice", nil |-> FALSE, a |-> a]
NilTSlice == [k |-> "tslice", nil |-> TRUE, a |-> <<>>]

IsObjectShaped(v) == v.k \in {"map", "tmap"}
IsArrayShaped(v) == v.k \in {"slice", "tslice"}

JNull == [j |-> "null"]
JStr(s) == [j |-> "str", s |-> s]
JObj(m) == [j |-> "obj", m |-> m]
JArr(a) == [j |-> "arr", a |-> a]

RECURSIVE ToJSON(_)
\* json.Marshal of a value every part of which json can encode
ToJSON(v) ==
    CASE v.k = "str" -> JStr(v.s)
      [] v.k = "nil" -> JNull
      [] IsObjectShaped(v) ->
            IF v.nil THEN JNull
            ELSE JObj([key \in DOMAIN v.m |-> ToJSON(v.m[key])])
      [] IsArrayShaped(v) ->
            IF v.nil THEN JNull
            ELSE JArr([i \in 1..Len(v.a) |-> ToJSON(v.a[i])])

RECURSIVE FromJSON(_)
\* json.Unmarshal into an interface{}: objects and arrays come back generic
FromJSON(t) ==
    CASE t.j = "str" -> Str(t.s)
      [] t.j = "null" -> NilIface
      [] t.j = "obj" -> Map([key \in DOMAIN t.m |-> FromJSON(t.m[key])])
      [] t.j = "arr" -> Slice([i \in 1..Len(t.a) |-> FromJSON(t.a[i])])

\* json.Unmarshal(jsonData, &dataMap) with dataMap a nil map[string]interface{}:
\* an object fills it, null leaves it nil, anything else is an error
UnmarshalMap(t) ==
    CASE t.j = "obj" -> [err |-> FALSE, v |-> FromJSON(t)]
      [] t.j = "null" -> [err |-> FALSE, v |-> NilMap]
      [] OTHER -> [err |-> TRUE, v |-> NilMap]

\* json.Unmarshal(jsonData, &dataArray) with dataArray a nil []interface{}
UnmarshalSlice(t) ==
    CASE t.j = "arr" -> [err |-> FALSE, v |-> FromJSON(t)]
      [] t.j = "null" -> [err |-> FALSE, v |-> NilSlice]
      [] OTHER -> [err |-> TRUE, v |-> NilSlice]

------------------------------------------------------------------------------
(* The masker.  mk is what the reads of the package variable Mask yield   *)
(* during one walk: the walk reads Mask once for each sensitive key, and   *)
(* all of its reads are taken to yield the same one of MaskReads.          *)

RECURSIVE MaskSensitiveData(_, _, _)
RECURSIVE maskSliceData(_, _, _)

\* as MaskSensitiveData, with the type switch ahead of the name check: a
\* sensitive key is masked only when its value is not a nested map or slice
MaskSensitiveDataDescend(f, mk, d) ==
    IF d.nil THEN NilMap
    ELSE Map([key \in DOMAIN d.m |->
            LET v == d.m[key] IN
            CASE v.k = "map" -> MaskSensitiveData(f, mk, v)
              [] v.k = "slice" -> maskSliceData(f, mk, v)
              [] OTHER -> IF IsSensitiveField(f, ToLower(key)) THEN Str(mk) ELSE v])

\* as MaskSensitiveData, storing under lowerKey instead of key
MaskSensitiveDataLowerKey(f, mk, d) ==
    IF d.nil THEN NilMap
    ELSE Map([lk \in {ToLower(key) : key \in DOMAIN d.m} |->
            LET key == CHOOSE x \in DOMAIN d.m : ToLower(x) = lk
                v == d.m[key] IN
            IF IsSensitiveField(f, lk) THEN Str(mk)
            ELSE CASE v.k = "map" -> MaskSensitiveData(f, mk, v)
                   [] v.k = "slice" -> maskSliceData(f, mk, v)
                   [] OTHER -> v])

\* as MaskSensitiveData, whose default case turns a typed value into its
\* generic form (a JSON round trip) and stores that without masking it
MaskSensitiveDataCanon(f, mk, d) ==
    IF d.nil THEN NilMap
    ELSE Map([key \in DOMAIN d.m |->
            LET v == d.m[key] IN
            IF IsSensitiveField(f, ToLower(key)) THEN Str(mk)
            ELSE CASE v.k = "map" -> MaskSensitiveData(f, mk, v)
                   [] v.k = "slice" -> maskSliceData(f, mk, v)
                   [] OTHER -> FromJSON(ToJSON(v))])

\* as MaskSensitiveData, without the nil check: make() of a nil map is empty
MaskSensitiveDataNoNil(f, mk, d) ==
    Map([key \in DOMAIN d.m |->
            LET v == d.m[key] IN
            IF IsSensitiveField(f, ToLower(key)) THEN Str(mk)
            ELSE CASE v.k = "map" -> MaskSensitiveData(f, mk, v)
                   [] v.k = "slice" -> maskSliceData(f, mk, v)
                   [] OTHER -> v])

\* MaskSensitiveData
MaskSensitiveData(f, mk, d) ==
    IF d.nil THEN NilMap
    ELSE Map([key \in DOMAIN d.m |->
            LET v == d.m[key] IN
            IF IsSensitiveField(f, ToLower(key)) THEN Str(mk)
            ELSE CASE v.k = "map" -> MaskSensitiveData(f, mk, v)
                   [] v.k = "slice" -> maskSliceData(f, mk, v)
                   [] OTHER -> v])

\* maskSliceData
maskSliceData(f, mk, s) ==
    IF s.nil THEN NilSlice
    ELSE Slice([i \in 1..Len(s.a) |->
            LET v == s.a[i] IN
            CASE v.k = "map" -> MaskSensitiveData(f, mk, v)
              [] v.k = "slice" -> maskSliceData(f, mk, v)
              [] OTHER -> v])

------------------------------------------------------------------------------
(* Shared pieces of the specifications *)

NilFilter == [nil |-> TRUE, sensitiveFields |-> {}]
FilterOf(flds) == [nil |-> FALSE, sensitiveFields |-> NewSensitiveDataFilter(flds)]

EncoderIdle ==
    /\ pc = "idle"
    /\ fields = <<>>
    /\ delegated = <<>>
    /\ innerCalls = 0
    /\ seen = <<>>
    /\ produced = <<>>

PureIdle ==
    /\ data = Unset
    /\ masked = Unset
    /\ remasked = Unset

LookupIdle ==
    /\ probe = <<>>
    /\ answer = FALSE

------------------------------------------------------------------------------
(* SpecLookup: NewSensitiveDataFilter, then IsSensitiveField on any name *)

InitLookup ==
    /\ Mask = DefaultMask
    /\ writing = NoWrite
    /\ cfg \in SeqsUpTo(Names, MaxCfg)
    /\ Filter = FilterOf(cfg)
    /\ EncoderIdle
    /\ PureIdle
    /\ LookupIdle

Probe ==
    \E name \in Names :
        /\ probe = <<>>
        /\ probe' = <<name>>
        /\ answer' = IsSensitiveField(Filter.sensitiveFields, name)
        /\ UNCHANGED <<Mask, writing, Filter, cfg, encVars, pureVars>>

NextLookup == Probe

SpecLookup == InitLookup /\ [][NextLookup]_vars

------------------------------------------------------------------------------
(* SpecMask: MaskSensitiveData / maskSliceData applied to a value, and then *)
(* to their own output, with the field set and the mask token held fixed.   *)

ObjKeys == {<<"p">>, <<"P">>, <<"n">>}
Secret == Str("v")

Leaves ==
    {Secret, NilIface, NilMap, Map(<<>>), NilSlice, Slice(<<>>),
     NilTMap, TMap(<<>>), NilTSlice, TSlice(<<>>)}

\* the maps and slices that hold c: alone, or beside one scalar
GenericWrap(c) ==
    {Map(key :> c) : key \in ObjKeys}
    \cup {Map((q[1] :> c) @@ (q[2] :> Secret)) :
              q \in {r \in ObjKeys \X ObjKeys : r[1] # r[2]}}
    \cup {Slice(<<c>>), Slice(<<c, Secret>>), Slice(<<Secret, c>>)}

\* the object- and array-shaped values of other types that hold c
TypedWrap(c) ==
    {TMap(key :> c) : key \in ObjKeys} \cup {TSlice(<<c>>)}

RECURSIVE Values(_)
\* the values nested at most d deep
Values(d) ==
    IF d = 0 THEN Leaves
    ELSE Leaves \cup UNION {GenericWrap(c) \cup TypedWrap(c) : c \in Values(d - 1)}

\* the maps and slices that hold c, and those that hold nothing
PureInputs(c) == {NilMap, Map(<<>>), NilSlice, Slice(<<>>)} \cup GenericWrap(c)

PureCfgs == {<< <<"P">> >>, << <<"n">> >>}

InitMask ==
    /\ Mask \in MaskTokens
    /\ writing = NoWrite
    /\ cfg \in PureCfgs
    /\ Filter = FilterOf(cfg)
    /\ EncoderIdle
    /\ LookupIdle
    /\ \E c \in Values(MaxDepth - 1) : data \in PureInputs(c)
    /\ masked = Unset
    /\ remasked = Unset

MaskMap ==
    /\ data.k = "map"
    /\ masked = Unset
    /\ masked' = MaskSensitiveData(Filter.sensitiveFields, Mask, data)
    /\ UNCHANGED <<Mask, writing, Filter, cfg, encVars, lookupVars, data, remasked>>

MaskSlice ==
    /\ data.k = "slice"
    /\ masked = Unset
    /\ masked' = maskSliceData(Filter.sensitiveFields, Mask, data)
    /\ UNCHANGED <<Mask, writing, Filter, cfg, encVars, lookupVars, data, remasked>>

RemaskMap ==
    /\ masked.k = "map"
    /\ remasked = Unset
    /\ remasked' = MaskSensitiveData(Filter.sensitiveFields, Mask, masked)
    /\ UNCHANGED <<Mask, writing, Filter, cfg, encVars, lookupVars, data, masked>>

RemaskSlice ==
    /\ masked.k = "slice"
    /\ remasked = Unset
    /\ remasked' = maskSliceData(Filter.sensitiveFields, Mask, masked)
    /\ UNCHANGED <<Mask, writing, Filter, cfg, encVars, lookupVars, data, masked>>

NextMask == MaskMap \/ MaskSlice \/ RemaskMap \/ RemaskSlice

SpecMask == InitMask /\ [][NextMask]_vars

------------------------------------------------------------------------------
(* What the claims speak of, stated apart from the code's own lookups *)

ToggleChar(c) ==
    CASE c = "p" -> "P"
      [] c = "P" -> "p"
      [] c = "n" -> "N"
      [] c = "N" -> "n"
      [] OTHER -> c

\* name with the case of any of its letters toggled
CaseVariants(name) ==
    {g \in [1..Len(name) -> {"p", "P", "n", "N"}] :
        \A i \in 1..Len(name) : g[i] \in {name[i], ToggleChar(name[i])}}

\* the name is not empty and is, lower-cased, a configured name lower-cased
Matches(name) ==
    /\ name # <<>>
    /\ \E i \in DOMAIN cfg : ToLower(name) = ToLower(cfg[i])

RECURSIVE HasSensitiveKey(_)
\* some key at some depth of v matches
HasSensitiveKey(v) ==
    CASE IsObjectShaped(v) ->
            \E key \in DOMAIN v.m : Matches(key) \/ HasSensitiveKey(v.m[key])
      [] IsArrayShaped(v) -> \E i \in 1..Len(v.a) : HasSensitiveKey(v.a[i])
      [] OTHER -> FALSE

RECURSIVE AllSensitiveMasked(_, _)
\* every matching key at every depth of v, typed values included, holds token
AllSensitiveMasked(v, token) ==
    CASE IsObjectShaped(v) ->
            \A key \in DOMAIN v.m :
                IF Matches(key) THEN v.m[key] = Str(token)
                ELSE AllSensitiveMasked(v.m[key], token)
      [] IsArrayShaped(v) -> \A i \in 1..Len(v.a) : AllSensitiveMasked(v.a[i], token)
      [] OTHER -> TRUE

RECURSIVE KeepsNil(_, _)
\* out is of the kinds of in, nil where in is nil and empty where in is
\* empty, at every place that masking walks
KeepsNil(in, out) ==
    CASE in.k = "map" ->
            /\ out.k = "map"
            /\ out.nil = in.nil
            /\ DOMAIN out.m = DOMAIN in.m
            /\ \A key \in DOMAIN in.m :
                   ~Matches(key) => KeepsNil(in.m[key], out.m[key])
      [] in.k = "slice" ->
            /\ out.k = "slice"
            /\ out.nil = in.nil
            /\ Len(out.a) = Len(in.a)
            /\ \A i \in 1..Len(in.a) : KeepsNil(in.a[i], out.a[i])
      [] OTHER -> out = in

RECURSIVE HoldsNilOrEmpty(_)
\* a nil or empty map or slice lies below the top of v, where masking walks
HoldsNilOrEmpty(v) ==
    CASE v.k = "map" ->
            \E key \in DOMAIN v.m :
                /\ ~Matches(key)
                /\ \/ v.m[key] \in {NilMap, Map(<<>>), NilSlice, Slice(<<>>)}
                   \/ HoldsNilOrEmpty(v.m[key])
      [] v.k = "slice" ->
            \E i \in 1..Len(v.a) :
                \/ v.a[i] \in {NilMap, Map(<<>>), NilSlice, Slice(<<>>)}
                \/ HoldsNilOrEmpty(v.a[i])
      [] OTHER -> FALSE

------------------------------------------------------------------------------
(* Claims about the lookup (SpecLookup) *)

\* C5: IsSensitiveField answers the same for a name and for every spelling of
\* it that differs only in the case of its letters; it answers true exactly
\* for a non-empty name that, lower-cased, is a configured name lower-cased.
C5_CaseInsensitive ==
    probe # <<>> =>
        /\ \A g \in CaseVariants(probe[1]) :
               IsSensitiveField(Filter.sensitiveFields, g) = answer
        /\ answer = Matches(probe[1])
        /\ (probe[1] = <<>> => answer = FALSE)

C5_Witness ==
    /\ probe # <<>>
    /\ answer = TRUE
    /\ Len(cfg) = 1
    /\ cfg[1] # ToLower(cfg[1])
    /\ probe[1] # cfg[1]
    /\ Len(probe[1]) = 2

------------------------------------------------------------------------------
(* Claims about the masker (SpecMask) *)

\* C2: in the output of MaskSensitiveData, every key of the input Object
\* that matches holds exactly the scalar mask token, whatever it held.
C2_SensitiveKeyMasked ==
    (masked # Unset /\ data.k = "map" /\ ~data.nil) =>
        /\ masked.k = "map"
        /\ \A key \in DOMAIN data.m :
               Matches(key) => key \in DOMAIN masked.m /\ masked.m[key] = Str(Mask)

C2_Witness ==
    /\ masked # Unset
    /\ data.k = "map"
    /\ \E key \in DOMAIN data.m :
           /\ Matches(key)
           /\ key # ToLower(key)
           /\ data.m[key].k \in {"map", "slice"}
           /\ HasSensitiveKey(data.m[key])

\* C3: an Object none of whose keys matches, at any depth, comes out of
\* MaskSensitiveData equal to itself: same keys as spelled, same scalars, same
\* arrays in the same order.
C3_NoSensitiveUnchanged ==
    (masked # Unset /\ ~HasSensitiveKey(data)) => masked = data

C3_Witness ==
    /\ masked # Unset
    /\ data.k = "map"
    /\ ~HasSensitiveKey(data)
    /\ \E key \in DOMAIN data.m :
           /\ key # ToLower(key)
           /\ data.m[key].k = "slice"
           /\ Len(data.m[key].a) = 2

\* C4: masking the output of masking, with the same field set and mask
\* token, gives that output again.
C4_Idempotent ==
    remasked # Unset => remasked = masked

C4_Witness ==
    /\ remasked # Unset
    /\ masked # data
    /\ data.k = "map"
    /\ \E key \in DOMAIN data.m :
           /\ ~Matches(key)
           /\ data.m[key].k = "map"
           /\ HasSensitiveKey(data.m[key])

\* C6: nil stays nil and empty stays empty, of the same kind: for the value
\* given to MaskSensitiveData or maskSliceData and for every map or slice
\* nested under a key that does not match or inside an array.
C6_NilAndEmptyKept ==
    masked # Unset => KeepsNil(data, masked)

C6_Witness ==
    /\ masked # Unset
    /\ HoldsNilOrEmpty(data)

\* C9: after masking, a matching key nested in a value that is not a
\* map[string]interface{} or []interface{} but is object- or array-shaped
\* holds the mask token, as every other matching key does.
C9_UnknownCanonicalized ==
    masked # Unset => AllSensitiveMasked(masked, Mask)

------------------------------------------------------------------------------
(* The encoder *)

\* a zapcore.Field: Key, Type, and the String or Interface that Type uses
Field(key, type, str, iface) ==
    [Key |-> key, Type |-> type, String |-> str, Interface |-> iface]

\* zap.String
ZapString(key, val) == Field(key, "StringType", val, NilIface)

\* &SensitiveDataMarshaler{Data: d, Filter: flt}
Marshaler(d, flt) == [k |-> "marshaler", Data |-> d, Filter |-> flt]

\* zap.Any of a *SensitiveDataMarshaler, which is none of the types zap.Any
\* knows: it falls through to zap.Reflect
ZapAnyMarshaler(key, m) == Field(key, "ReflectType", "", m)

\* SensitiveDataMarshaler.MarshalJSON: the bytes returned (json.Marshal does
\* not fail on the values modelled, so the error is always nil)
MarshalJSON(m, mk) ==
    IF m.Filter.nil THEN ToJSON(m.Data)
    ELSE LET f == m.Filter.sensitiveFields IN
         CASE m.Data.k = "map" -> ToJSON(MaskSensitiveData(f, mk, m.Data))
           [] m.Data.k = "slice" -> ToJSON(maskSliceData(f, mk, m.Data))
           [] OTHER ->
                LET jsonData == ToJSON(m.Data)
                    asMap == UnmarshalMap(jsonData)
                    asArray == UnmarshalSlice(jsonData)
                IN  IF ~asMap.err THEN ToJSON(MaskSensitiveData(f, mk, asMap.v))
                    ELSE IF ~asArray.err THEN ToJSON(maskSliceData(f, mk, asArray.v))
                    ELSE jsonData

\* as FilteredField, building the mask field under lowerKey
FilteredFieldLowerKey(flt, mk, field) ==
    LET lowerKey == ToLower(field.Key) IN
    IF IsSensitiveField(flt.sensitiveFields, lowerKey)
    THEN ZapString(lowerKey, mk)
    ELSE IF /\ field.Type \in {"ReflectType", "ObjectMarshalerType"}
            /\ field.Interface # NilIface
         THEN ZapAnyMarshaler(field.Key, Marshaler(field.Interface, flt))
         ELSE field

\* as FilteredField, wrapping reflect-typed fields only
FilteredFieldReflectOnly(flt, mk, field) ==
    LET lowerKey == ToLower(field.Key) IN
    IF IsSensitiveField(flt.sensitiveFields, lowerKey)
    THEN ZapString(field.Key, mk)
    ELSE IF /\ field.Type = "ReflectType"
            /\ field.Interface # NilIface
         THEN ZapAnyMarshaler(field.Key, Marshaler(field.Interface, flt))
         ELSE field

\* the body of EncodeEntry's loop: what is appended to filteredFields for field
FilteredField(flt, mk, field) ==
    LET lowerKey == ToLower(field.Key) IN
    IF IsSensitiveField(flt.sensitiveFields, lowerKey)
    THEN ZapString(field.Key, mk)
    ELSE IF /\ field.Type \in {"ReflectType", "ObjectMarshalerType"}
            /\ field.Interface # NilIface
         THEN ZapAnyMarshaler(field.Key, Marshaler(field.Interface, flt))
         ELSE field

\* the field sequence EncodeEntry hands to the wrapped encoder
FilteredFields(flt, mk, fs) ==
    IF flt.nil THEN fs
    ELSE IF Len(fs) = 0 THEN fs
    ELSE [i \in 1..Len(fs) |-> FilteredField(flt, mk, fs[i])]

\* the wrapped encoder (zapcore's JSON or console encoder) serializing one
\* field: a string as it is, a reflected value through json.Marshal (which
\* calls MarshalJSON on a *SensitiveDataMarshaler), an object or array
\* marshaler through its MarshalLogObject / MarshalLogArray
Serialized(field, mk) ==
    [Key |-> field.Key,
     json |-> CASE field.Type = "StringType" -> JStr(field.String)
                [] field.Interface.k = "marshaler" -> MarshalJSON(field.Interface, mk)
                [] OTHER -> ToJSON(field.Interface)]

------------------------------------------------------------------------------
(* Spec: encode calls on one SensitiveDataEncoder, and stores to Mask *)

FieldKeys == {<<"P">>, <<"n">>}

ReflectValues ==
    {NilIface,
     Map(<<"n">> :> Map(<<"p">> :> Secret)),
     TSlice(<<Map(<<"p">> :> Secret)>>),
     Map(<<"n">> :> TMap(<<"p">> :> Secret))}
ObjectMarshalerValues == {TMap(<<"p">> :> Secret)}
ArrayMarshalerValues == {TSlice(<<TMap(<<"p">> :> Secret)>>)}

InputFields ==
    {Field(key, "StringType", "v", NilIface) : key \in FieldKeys}
    \cup {Field(key, "ReflectType", "", v) : key \in FieldKeys, v \in ReflectValues}
    \cup {Field(key, "ObjectMarshalerType", "", v) :
              key \in FieldKeys, v \in ObjectMarshalerValues}
    \cup {Field(key, "ArrayMarshalerType", "", v) :
              key \in FieldKeys, v \in ArrayMarshalerValues}

EncCfg == << <<"P">> >>

Init ==
    /\ Mask = DefaultMask
    /\ writing = NoWrite
    /\ cfg = EncCfg
    /\ Filter \in {NilFilter, FilterOf(cfg)}
    /\ EncoderIdle
    /\ PureIdle
    /\ LookupIdle

\* EncodeEntry up to its call of the wrapped encoder's EncodeEntry (the reads
\* of Mask in one run of the loop are taken to yield the same one of MaskReads)
EncodeEntry ==
    /\ pc = "idle"
    /\ produced = <<>>
    /\ \E fs \in SeqsUpTo(InputFields, MaxFields), mk \in MaskReads :
           /\ fields' = fs
           /\ delegated' = FilteredFields(Filter, mk, fs)
    /\ innerCalls' = innerCalls + 1
    /\ seen' = <<>>
    /\ pc' = "encoding"
    /\ UNCHANGED <<Mask, writing, Filter, cfg, produced, pureVars, lookupVars>>

\* the wrapped encoder serializes the next field it was given
InnerEncodeField ==
    /\ pc = "encoding"
    /\ Len(seen) < Len(delegated)
    /\ \E mk \in MaskReads :
           seen' = Append(seen, Serialized(delegated[Len(seen) + 1], mk))
    /\ UNCHANGED <<Mask, writing, Filter, cfg, pc, fields, delegated, innerCalls,
                   produced, pureVars, lookupVars>>

\* the wrapped encoder returns its buffer, and EncodeEntry returns it
InnerReturn ==
    /\ pc = "encoding"
    /\ Len(seen) = Len(delegated)
    /\ produced' = <<seen>>
    /\ pc' = "idle"
    /\ fields' = <<>>
    /\ delegated' = <<>>
    /\ seen' = <<>>
    /\ innerCalls' = 0
    /\ UNCHANGED <<Mask, writing, Filter, cfg, pureVars, lookupVars>>

\* the core that called EncodeEntry has written the buffer out and freed it
Release ==
    /\ pc = "idle"
    /\ produced # <<>>
    /\ produced' = <<>>
    /\ UNCHANGED <<Mask, writing, Filter, cfg, pc, fields, delegated, innerCalls,
                   seen, pureVars, lookupVars>>

\* a store to the package variable Mask begins
SetMaskBegin ==
    /\ writing = NoWrite
    /\ \E token \in MaskTokens : writing' = token
    /\ UNCHANGED <<Mask, Filter, cfg, encVars, pureVars, lookupVars>>

\* the store is complete
SetMaskEnd ==
    /\ writing # NoWrite
    /\ Mask' = writing
    /\ writing' = NoWrite
    /\ UNCHANGED <<Filter, cfg, encVars, pureVars, lookupVars>>

Next ==
    \/ EncodeEntry
    \/ InnerEncodeField
    \/ InnerReturn
    \/ Release
    \/ SetMaskBegin
    \/ SetMaskEnd

Spec == Init /\ [][Next]_vars

------------------------------------------------------------------------------
(* Claims about the encoder (Spec) *)

AnyToken == MaskTokens \cup {Torn}

RECURSIVE JSONMasked(_)
\* in JSON text t, every matching key at every depth holds a mask token
JSONMasked(t) ==
    CASE t.j = "obj" ->
            \A key \in DOMAIN t.m :
                IF Matches(key) THEN t.m[key].j = "str" /\ t.m[key].s \in AnyToken
                ELSE JSONMasked(t.m[key])
      [] t.j = "arr" -> \A i \in 1..Len(t.a) : JSONMasked(t.a[i])
      [] OTHER -> TRUE

RECURSIVE TokensOfJSON(_)
\* the mask tokens that JSON text t holds
TokensOfJSON(t) ==
    CASE t.j = "str" -> {t.s} \cap AnyToken
      [] t.j = "obj" -> UNION {TokensOfJSON(t.m[key]) : key \in DOMAIN t.m}
      [] t.j = "arr" -> UNION {TokensOfJSON(t.a[i]) : i \in 1..Len(t.a)}
      [] OTHER -> {}

\* the mask tokens that the string fields of fs hold
TokensOfFields(fs) ==
    {fs[i].String : i \in {j \in 1..Len(fs) : fs[j].Type = "StringType"}} \cap AnyToken

IsComplex(field) ==
    /\ field.Type \in {"ReflectType", "ObjectMarshalerType"}
    /\ field.Interface # NilIface

IsWrapperOf(out, field) ==
    /\ out.Key = field.Key
    /\ out.Type = "ReflectType"
    /\ out.Interface = Marshaler(field.Interface, Filter)

IsMaskField(out, field) ==
    /\ out.Key = field.Key
    /\ out.Type = "StringType"
    /\ out.String \in AnyToken
    /\ out.Interface = NilIface

\* C1: with a Filter set, nothing the wrapped encoder serializes holds a
\* matching key, at the top level or at any depth, with a value other than
\* the mask token, whatever the type of the field.
C1_NothingSensitiveObserved ==
    ~Filter.nil =>
        \A i \in 1..Len(seen) :
            IF Matches(seen[i].Key)
            THEN seen[i].json.j = "str" /\ seen[i].json.s \in AnyToken
            ELSE JSONMasked(seen[i].json)

\* C7: the sequence handed to the wrapped encoder is as long as the input
\* and carries, at each position, the input field's name as spelled; the
\* wrapped encoder's EncodeEntry is called once per call.
C7_NamesAndOrderKept ==
    /\ pc = "encoding" =>
           /\ innerCalls = 1
           /\ Len(delegated) = Len(fields)
           /\ \A i \in 1..Len(fields) : delegated[i].Key = fields[i].Key
    /\ pc = "idle" => innerCalls = 0

C7_Witness ==
    /\ pc = "encoding"
    /\ ~Filter.nil
    /\ Len(fields) = 2
    /\ Matches(fields[1].Key) /\ fields[1].Key # ToLower(fields[1].Key)
    /\ ~Matches(fields[2].Key) /\ IsComplex(fields[2])
    /\ delegated[1] # fields[1]
    /\ delegated[2] # fields[2]

\* C8 as claimed: every complex-typed field is replaced by a wrapper around
\* its value whether or not its name matches; a scalar-typed field whose
\* name matches is replaced by the mask string; the rest is forwarded as is.
C8_ComplexAlwaysWrapped ==
    (pc = "encoding" /\ ~Filter.nil) =>
        \A i \in 1..Len(fields) :
            IF IsComplex(fields[i]) THEN IsWrapperOf(delegated[i], fields[i])
            ELSE IF Matches(fields[i].Key) THEN IsMaskField(delegated[i], fields[i])
            ELSE delegated[i] = fields[i]

\* C8 as amended: every field whose name matches, complex-typed or not, is
\* replaced by the mask string; a complex-typed field whose name does not
\* match is replaced by a wrapper around its value; the rest is forwarded
\* as is.
C8_NameFirstThenWrapped ==
    (pc = "encoding" /\ ~Filter.nil) =>
        \A i \in 1..Len(fields) :
            IF Matches(fields[i].Key) THEN IsMaskField(delegated[i], fields[i])
            ELSE IF IsComplex(fields[i]) THEN IsWrapperOf(delegated[i], fields[i])
            ELSE delegated[i] = fields[i]

C8_Witness ==
    /\ pc = "encoding"
    /\ ~Filter.nil
    /\ Len(fields) = 2
    /\ Matches(fields[1].Key) /\ fields[1].Type = "ObjectMarshalerType"
    /\ ~Matches(fields[2].Key) /\ fields[2].Type = "ObjectMarshalerType"

\* C10: a masking operation that no store to Mask overlaps, the replacement
\* of a field in EncodeEntry as well as the deferred masking in MarshalJSON,
\* substitutes the value last stored in Mask; a store to Mask leaves the
\* output of a completed call as it was.
C10_MaskWriteVisibleAfter ==
    [][/\ (writing = NoWrite /\ pc = "idle" /\ pc' = "encoding")
           => TokensOfFields(delegated') \subseteq {Mask}
       /\ (/\ writing = NoWrite
           /\ pc = "encoding"
           /\ Len(seen') = Len(seen) + 1
           /\ delegated[Len(seen')].Interface.k = "marshaler")
           => TokensOfJSON(seen'[Len(seen')].json) \subseteq {Mask}
       /\ (Mask' # Mask \/ writing' # writing) => produced' = produced]_vars

C10_Witness ==
    /\ pc = "idle"
    /\ writing = NoWrite
    /\ Mask = DefaultMask
    /\ produced # <<>>
    /\ Len(produced[1]) = 2
    /\ produced[1][1].json = JStr(Redacted)
    /\ produced[1][2].json.j = "arr"
    /\ TokensOfJSON(produced[1][2].json) = {Redacted}

====
